---------------------------- MODULE Spec2Model ----------------------------
(***************************************************************************)
(* A model of iso_mount_tool.py: the derivation of the mount directory     *)
(* from the image path (sanitize_filename, get_mount_point) and the mount  *)
(* and unmount lifecycles (main, mount_iso, unmount_iso) run by concurrent *)
(* invocations of the tool over one shared file system. The derivation is  *)
(* also followed on its own, over all short strings (DerivationSpec).      *)
(*                                                                         *)
(* A Python str is a sequence of one-character strings.                    *)
(***************************************************************************)
EXTENDS Integers, Sequences, FiniteSets, TLC

VARIABLES
    dirs,         \* the directories under BASE_MOUNT_DIR, by path
    baseExists,   \* BASE_MOUNT_DIR exists
    pc,           \* where each invocation of the tool is
    argv,         \* sys.argv of each invocation
    isoKind,      \* what the file system holds at the invocation's image path
    iso_path,     \* the local iso_path (after os.path.abspath)
    mount_point,  \* the local mount_point
    exitCode,     \* the exit status of the invocation, NoExit while it runs
    branch,       \* the branch of the lifecycle the invocation took
    uncaught,     \* the exception that ended the invocation, if one did
    calls,        \* the file system and OS operations the invocation issued
    derivation    \* one call of sanitize_filename or get_mount_point

vars == <<dirs, baseExists, pc, argv, isoKind, iso_path, mount_point,
          exitCode, branch, uncaught, calls, derivation>>

---------------------------------------------------------------------------
(* Bounds *)

\* The deepest stack of mounts the model lets the OS hold on one directory.
MaxMounts == 2

\* The longest string that a derivation is given.
MaxLen == 4

\* The invocations of the tool: one that runs alone, and two that run
\* beside each other.
Alone == "p0"
Racers == {"p1", "p2"}
Procs == {Alone} \cup Racers

---------------------------------------------------------------------------
(* Characters *)

LowerCase == {"a", "b", "c", "d", "e", "f", "g", "h", "i", "j", "k", "l", "m",
              "n", "o", "p", "q", "r", "s", "t", "u", "v", "w", "x", "y", "z"}
UpperCase == {"A", "B", "C", "D", "E", "F", "G", "H", "I", "J", "K", "L", "M",
              "N", "O", "P", "Q", "R", "S", "T", "U", "V", "W", "X", "Y", "Z"}
Digits == {"0", "1", "2", "3", "4", "5", "6", "7", "8", "9"}

\* Letters outside ASCII: Python's \w, on a str pattern, matches them too.
NonAsciiLetters == {"é", "ß"}

\* The characters Python's \w matches.
WordChars == LowerCase \cup UpperCase \cup Digits \cup {"_"} \cup NonAsciiLetters

\* str.lower() on one character.
LowerChar(c) ==
    CASE c = "A" -> "a" [] c = "B" -> "b" [] c = "C" -> "c" [] c = "D" -> "d"
      [] c = "E" -> "e" [] c = "F" -> "f" [] c = "G" -> "g" [] c = "H" -> "h"
      [] c = "I" -> "i" [] c = "J" -> "j" [] c = "K" -> "k" [] c = "L" -> "l"
      [] c = "M" -> "m" [] c = "N" -> "n" [] c = "O" -> "o" [] c = "P" -> "p"
      [] c = "Q" -> "q" [] c = "R" -> "r" [] c = "S" -> "s" [] c = "T" -> "t"
      [] c = "U" -> "u" [] c = "V" -> "v" [] c = "W" -> "w" [] c = "X" -> "x"
      [] c = "Y" -> "y" [] c = "Z" -> "z" [] OTHER -> c

Lower(s) == [i \in 1..Len(s) |-> LowerChar(s[i])]

EndsWith(s, suffix) ==
    /\ Len(s) >= Len(suffix)
    /\ SubSeq(s, Len(s) - Len(suffix) + 1, Len(s)) = suffix

\* str.find(c) with positions from 1: 0 when c does not occur.
Find(s, c) ==
    LET at == {i \in 1..Len(s) : s[i] = c}
    IN  IF at = {} THEN 0 ELSE CHOOSE i \in at : \A j \in at : i <= j

\* str.rfind(c) with positions from 1: 0 when c does not occur.
RFind(s, c) ==
    LET at == {i \in 1..Len(s) : s[i] = c}
    IN  IF at = {} THEN 0 ELSE CHOOSE i \in at : \A j \in at : j <= i

---------------------------------------------------------------------------
(* The strings of the model *)

\* The state holds a Python str as a TLA+ string; the string operations
\* work on its characters, which Chars spells out.
Texts ==
    {"/home/user",
     ".iso_mounts",
     "/home/user/.iso_mounts",
     "/data",
     ".iso",
     "/data/Ubuntu-22.04.iso",
     "Ubuntu-22.04.iso",
     "/tmp/file.txt",
     "/data/My Disk.ISO",
     "472df921",
     "a89a3847",
     "55c62b3f",
     "/home/user/.iso_mounts/Ubuntu-22.04_472df921",
     "/home/user/.iso_mounts/Ubuntu-22_04_472df921",
     "/home/user/.iso_mounts/file_a89a3847",
     "/home/user/.iso_mounts/My_Disk_55c62b3f"}

Chars(t) ==
    CASE t = "/home/user" ->
           <<"/", "h", "o", "m", "e", "/", "u", "s", "e", "r">>
      [] t = ".iso_mounts" ->
           <<".", "i", "s", "o", "_", "m", "o", "u", "n", "t", "s">>
      [] t = "/home/user/.iso_mounts" ->
           <<"/", "h", "o", "m", "e", "/", "u", "s", "e", "r", "/", ".", "i",
             "s", "o", "_", "m", "o", "u", "n", "t", "s">>
      [] t = "/data" ->
           <<"/", "d", "a", "t", "a">>
      [] t = ".iso" ->
           <<".", "i", "s", "o">>
      [] t = "/data/Ubuntu-22.04.iso" ->
           <<"/", "d", "a", "t", "a", "/", "U", "b", "u", "n", "t", "u", "-",
             "2", "2", ".", "0", "4", ".", "i", "s", "o">>
      [] t = "Ubuntu-22.04.iso" ->
           <<"U", "b", "u", "n", "t", "u", "-", "2", "2", ".", "0", "4", ".",
             "i", "s", "o">>
      [] t = "/tmp/file.txt" ->
           <<"/", "t", "m", "p", "/", "f", "i", "l", "e", ".", "t", "x", "t">>
      [] t = "/data/My Disk.ISO" ->
           <<"/", "d", "a", "t", "a", "/", "M", "y", " ", "D", "i", "s", "k",
             ".", "I", "S", "O">>
      [] t = "472df921" ->
           <<"4", "7", "2", "d", "f", "9", "2", "1">>
      [] t = "a89a3847" ->
           <<"a", "8", "9", "a", "3", "8", "4", "7">>
      [] t = "55c62b3f" ->
           <<"5", "5", "c", "6", "2", "b", "3", "f">>
      [] t = "/home/user/.iso_mounts/Ubuntu-22.04_472df921" ->
           <<"/", "h", "o", "m", "e", "/", "u", "s", "e", "r", "/", ".", "i",
             "s", "o", "_", "m", "o", "u", "n", "t", "s", "/", "U", "b", "u",
             "n", "t", "u", "-", "2", "2", ".", "0", "4", "_", "4", "7", "2",
             "d", "f", "9", "2", "1">>
      [] t = "/home/user/.iso_mounts/Ubuntu-22_04_472df921" ->
           <<"/", "h", "o", "m", "e", "/", "u", "s", "e", "r", "/", ".", "i",
             "s", "o", "_", "m", "o", "u", "n", "t", "s", "/", "U", "b", "u",
             "n", "t", "u", "-", "2", "2", "_", "0", "4", "_", "4", "7", "2",
             "d", "f", "9", "2", "1">>
      [] t = "/home/user/.iso_mounts/file_a89a3847" ->
           <<"/", "h", "o", "m", "e", "/", "u", "s", "e", "r", "/", ".", "i",
             "s", "o", "_", "m", "o", "u", "n", "t", "s", "/", "f", "i", "l",
             "e", "_", "a", "8", "9", "a", "3", "8", "4", "7">>
      [] t = "/home/user/.iso_mounts/My_Disk_55c62b3f" ->
           <<"/", "h", "o", "m", "e", "/", "u", "s", "e", "r", "/", ".", "i",
             "s", "o", "_", "m", "o", "u", "n", "t", "s", "/", "M", "y", "_",
             "D", "i", "s", "k", "_", "5", "5", "c", "6", "2", "b", "3", "f">>
      [] OTHER -> <<"?">>

\* The string that is written with these characters.
Unknown == "?"
Text(s) ==
    IF \E t \in Texts : Chars(t) = s
    THEN CHOOSE t \in Texts : Chars(t) = s
    ELSE Unknown

Home == "/home/user"
Cwd == "/data"
IsoExt == Chars(".iso")

P_ubuntu == "/data/Ubuntu-22.04.iso"
P_rel == "Ubuntu-22.04.iso"
P_txt == "/tmp/file.txt"
P_disk == "/data/My Disk.ISO"

\* The image paths the invocations are given.
InputPaths == {P_ubuntu, P_rel, P_txt, P_disk}

---------------------------------------------------------------------------
(* PathResolver *)

\* os.path.join(a, b) of two components.
Join(a, b) ==
    IF Len(b) > 0 /\ b[1] = "/" THEN b
    ELSE IF Len(a) = 0 \/ a[Len(a)] = "/" THEN a \o b
    ELSE a \o <<"/">> \o b

\* path.split('/')
RECURSIVE SplitPath(_)
SplitPath(path) ==
    LET i == Find(path, "/")
    IN  IF i = 0 THEN <<path>>
        ELSE <<SubSeq(path, 1, i - 1)>> \o SplitPath(SubSeq(path, i + 1, Len(path)))

\* The loop of os.path.normpath over the components of an absolute path:
\* empty and "." components are skipped, ".." takes the last one back.
RECURSIVE NormComps(_, _)
NormComps(comps, kept) ==
    IF comps = <<>> THEN kept
    ELSE LET comp == Head(comps)
         IN  IF comp = <<>> \/ comp = <<".">>
             THEN NormComps(Tail(comps), kept)
             ELSE IF comp = <<".", ".">>
             THEN NormComps(Tail(comps),
                            IF kept = <<>> THEN kept
                            ELSE SubSeq(kept, 1, Len(kept) - 1))
             ELSE NormComps(Tail(comps), Append(kept, comp))

\* '/'.join(comps)
RECURSIVE JoinComps(_)
JoinComps(comps) ==
    IF comps = <<>> THEN <<>>
    ELSE IF Len(comps) = 1 THEN comps[1]
    ELSE comps[1] \o <<"/">> \o JoinComps(Tail(comps))

\* os.path.normpath(path) of an absolute path: exactly two leading slashes
\* are kept, any other number becomes one.
NormPath(path) ==
    LET slashes == IF /\ Len(path) >= 2 /\ path[2] = "/"
                      /\ ~(Len(path) >= 3 /\ path[3] = "/")
                   THEN <<"/", "/">> ELSE <<"/">>
    IN  slashes \o JoinComps(NormComps(SplitPath(path), <<>>))

\* os.path.abspath(path), on the characters and on the string.
AbsPath(path) ==
    NormPath(IF Len(path) > 0 /\ path[1] = "/" THEN path
             ELSE Join(Chars(Cwd), path))

abspath(t) == Text(AbsPath(Chars(t)))

BASE_MOUNT_DIR == Text(Join(Chars(Home), Chars(".iso_mounts")))

\* A substitution that takes the dot for an unsafe character too.
ReplaceUnsafeAndDots(s) ==
    [i \in 1..Len(s) |-> IF s[i] \in WordChars \cup {"-"} THEN s[i] ELSE "_"]

\* re.sub(r'[^\w.-]', '_', filename)
ReplaceUnsafe(s) ==
    [i \in 1..Len(s) |-> IF s[i] \in WordChars \cup {".", "-"} THEN s[i] ELSE "_"]

\* A substitution that leaves the runs of underscores as they are.
CollapseNothing(s) == s

\* re.sub(r'_{2,}', '_', filename)
RECURSIVE CollapseUnderscores(_)
CollapseUnderscores(s) ==
    IF Len(s) <= 1 THEN s
    ELSE IF s[1] = "_" /\ s[2] = "_" THEN CollapseUnderscores(Tail(s))
    ELSE <<s[1]>> \o CollapseUnderscores(Tail(s))

\* filename.strip('_')
RECURSIVE StripLeft(_)
StripLeft(s) ==
    IF Len(s) > 0 /\ s[1] = "_" THEN StripLeft(Tail(s)) ELSE s

RECURSIVE StripRight(_)
StripRight(s) ==
    IF Len(s) > 0 /\ s[Len(s)] = "_" THEN StripRight(SubSeq(s, 1, Len(s) - 1)) ELSE s

StripUnderscores(s) == StripRight(StripLeft(s))

sanitize_filename(filename) ==
    StripUnderscores(CollapseUnderscores(ReplaceUnsafe(filename)))

\* os.path.basename(p)
BaseName(p) == SubSeq(p, RFind(p, "/") + 1, Len(p))

\* os.path.splitext(p)[0]: the extension starts at the last dot of the last
\* component, unless only dots precede it there.
SplitExtRoot(p) ==
    LET sepIndex == RFind(p, "/")
        dotIndex == RFind(p, ".")
    IN  IF /\ dotIndex > sepIndex
           /\ \E i \in (sepIndex + 1)..(dotIndex - 1) : p[i] /= "."
        THEN SubSeq(p, 1, dotIndex - 1)
        ELSE p

\* hashlib.sha256(iso_path.encode()).hexdigest()[:8], for the absolute paths
\* of the model.
path_hash(p) ==
    CASE p = Chars(P_ubuntu) -> Chars("472df921")
      [] p = Chars(P_txt) -> Chars("a89a3847")
      [] p = Chars(P_disk) -> Chars("55c62b3f")

\* A directory name made of the stem alone.
dir_name_without_hash(p, hash) ==
    sanitize_filename(SplitExtRoot(BaseName(p)))

\* Lines 21 and 27, on the characters of the absolute path and of its hash:
\* sanitize_filename(f"{iso_name}_{path_hash}")
dir_name(p, hash) ==
    sanitize_filename(SplitExtRoot(BaseName(p)) \o <<"_">> \o hash)

mount_dir_name(p) == dir_name(p, path_hash(p))

\* A mount point made by putting the name right after the base directory.
MountPointAppended(name) == Chars(BASE_MOUNT_DIR) \o name

\* Line 29: os.path.join(BASE_MOUNT_DIR, mount_dir_name)
MountPointOf(name) == Join(Chars(BASE_MOUNT_DIR), name)

get_mount_point(t) == Text(MountPointOf(mount_dir_name(Chars(t))))

\* The paths the invocations work on, and their mount points.
AbsPaths == {abspath(t) : t \in InputPaths}
MountPoints == {get_mount_point(t) : t \in AbsPaths}

---------------------------------------------------------------------------
(* The file system and the OS, as the tool sees them *)

\* What the file system can hold at an image path.
Kinds == {"absent", "file", "dir"}

NoDir == [exists |-> FALSE, nonempty |-> FALSE, mounts |-> 0]
EmptyDir == [exists |-> TRUE, nonempty |-> FALSE, mounts |-> 0]

\* os.path.exists(mount_point)
PathExists(d) == dirs[d].exists

\* is_mounted(mount_point): os.path.ismount
is_mounted(d) == dirs[d].exists /\ dirs[d].mounts > 0

\* What os.listdir(mount_point) can show of an existing directory: the image's
\* content while one is mounted on it, the directory's own entries otherwise.
Listings(d) ==
    IF dirs[d].mounts > 0 THEN {"empty", "nonempty"}
    ELSE IF dirs[d].nonempty THEN {"nonempty"} ELSE {"empty"}

\* A directory creation that creates nothing.
makedirs_nothing(d) == dirs

\* os.makedirs(mount_point, exist_ok=True), when it succeeds.
makedirs(d) ==
    IF dirs[d].exists THEN dirs ELSE [dirs EXCEPT ![d] = EmptyDir]

\* A removal that takes the directory with what it holds.
rmtree(d, granted) ==
    IF granted /\ dirs[d].exists /\ dirs[d].mounts = 0
    THEN [dirs EXCEPT ![d] = NoDir]
    ELSE dirs

\* os.rmdir(mount_point): the OS removes only an existing, empty directory
\* that is not a mount point, and may refuse even that one.
rmdir(d, granted) ==
    IF granted /\ dirs[d].exists /\ dirs[d].mounts = 0 /\ ~dirs[d].nonempty
    THEN [dirs EXCEPT ![d] = NoDir]
    ELSE dirs

\* The outcomes of subprocess.run([...], check=True): the command ran and
\* returned 0, ran and returned non-zero (CalledProcessError), or was not
\* found (FileNotFoundError).
RunOutcomes == {"ok", "nonzero", "not_found"}

\* The outcomes of subprocess.Popen(['xdg-open', ...]): started, not found
\* (FileNotFoundError), or another OSError such as PermissionError.
PopenOutcomes == {"started", "not_found", "os_error"}

---------------------------------------------------------------------------
(* The state of one invocation *)

NoExit == -1
NoPath == ""

NoCalls == [made |-> {}, mount |-> <<>>, umount |-> <<>>,
            listing |-> "none", rmdir |-> "none", opened |-> "none"]

\* No derivation is followed while the invocations run.
NoDerivation == [stage |-> "off", given |-> <<>>, hash |-> <<>>, path |-> <<>>,
                 result |-> <<>>]

\* sys.argv of the invocations the model runs. The invocation that runs alone
\* is given every command line of the model; the two that run beside each
\* other mount or unmount the same image, which exists.
Tool == "iso_mount_tool.py"
AllArgvs ==
    {<<Tool>>, <<Tool, "mount">>, <<Tool, "mount", P_ubuntu, "extra">>}
    \cup {<<Tool, a, path>> : a \in {"mount", "unmount"}, path \in InputPaths}
    \cup {<<Tool, "eject", P_ubuntu>>}

Argvs(p) ==
    IF p = Alone THEN AllArgvs
    ELSE {<<Tool, a, P_ubuntu>> : a \in {"mount", "unmount"}}

\* What the invocation finds at its image path.
KindsFor(p, a) ==
    IF Len(a) < 3 \/ a[2] \notin {"mount", "unmount"} THEN {"absent"}
    ELSE IF p = Alone THEN Kinds
    ELSE {"file"}

Init ==
    /\ dirs = [d \in MountPoints |-> NoDir]
    /\ baseExists = FALSE
    /\ pc = [p \in Procs |-> "idle"]
    /\ argv = [p \in Procs |-> <<>>]
    /\ isoKind = [p \in Procs |-> "absent"]
    /\ iso_path = [p \in Procs |-> NoPath]
    /\ mount_point = [p \in Procs |-> NoPath]
    /\ exitCode = [p \in Procs |-> NoExit]
    /\ branch = [p \in Procs |-> "none"]
    /\ uncaught = [p \in Procs |-> "none"]
    /\ calls = [p \in Procs |-> NoCalls]
    /\ derivation = NoDerivation

Goto(p, label) ==
    /\ pc' = [pc EXCEPT ![p] = label]
    /\ UNCHANGED <<exitCode, uncaught, derivation>>

\* sys.exit(code), or the return of main() for code 0.
SysExit(p, code) ==
    /\ pc' = [pc EXCEPT ![p] = "done"]
    /\ exitCode' = [exitCode EXCEPT ![p] = code]
    /\ UNCHANGED <<uncaught, derivation>>

\* An exception no handler catches: the interpreter prints the traceback
\* and exits with status 1.
Raise(p, exception) ==
    /\ pc' = [pc EXCEPT ![p] = "done"]
    /\ exitCode' = [exitCode EXCEPT ![p] = 1]
    /\ uncaught' = [uncaught EXCEPT ![p] = exception]
    /\ UNCHANGED derivation

Branch(p, name) == branch' = [branch EXCEPT ![p] = name]

Locals == <<argv, isoKind, iso_path, mount_point>>
FileSystem == <<dirs, baseExists>>

---------------------------------------------------------------------------
(* main *)

Main(p) ==
    /\ pc[p] \in {"idle", "done"}
    /\ \E a \in Argvs(p) : \E k \in KindsFor(p, a) :
        /\ argv' = [argv EXCEPT ![p] = a]
        /\ isoKind' = [isoKind EXCEPT ![p] = k]
        /\ iso_path' = [iso_path EXCEPT ![p] = NoPath]
        /\ mount_point' = [mount_point EXCEPT ![p] = NoPath]
        /\ calls' = [calls EXCEPT ![p] = NoCalls]
        /\ uncaught' = [uncaught EXCEPT ![p] = "none"]
        /\ IF Len(a) < 3
           THEN /\ pc' = [pc EXCEPT ![p] = "done"]
                /\ exitCode' = [exitCode EXCEPT ![p] = 1]
                /\ Branch(p, "UsageError")
           ELSE IF a[2] = "mount"
           THEN /\ pc' = [pc EXCEPT ![p] = "mount_iso"]
                /\ exitCode' = [exitCode EXCEPT ![p] = NoExit]
                /\ Branch(p, "none")
           ELSE IF a[2] = "unmount"
           THEN /\ pc' = [pc EXCEPT ![p] = "unmount_iso"]
                /\ exitCode' = [exitCode EXCEPT ![p] = NoExit]
                /\ Branch(p, "none")
           ELSE /\ pc' = [pc EXCEPT ![p] = "done"]
                /\ exitCode' = [exitCode EXCEPT ![p] = 1]
                /\ Branch(p, "UnknownAction")
    /\ UNCHANGED <<FileSystem, derivation>>

---------------------------------------------------------------------------
(* mount_iso *)

Called(p, op, value) == calls' = [calls EXCEPT ![p][op] = value]

\* A test of the suffix that minds the case.
has_iso_suffix_exact(path) == EndsWith(Chars(path), IsoExt)

\* Line 43: iso_path.lower().endswith(".iso")
has_iso_suffix(path) == EndsWith(Lower(Chars(path)), IsoExt)

\* Lines 38-47: the two checks of the image path, then the mount point.
MountPrecheck(p) ==
    /\ pc[p] = "mount_iso"
    /\ LET path == abspath(argv[p][3])
       IN  /\ iso_path' = [iso_path EXCEPT ![p] = path]
           /\ IF isoKind[p] = "absent"
              THEN /\ SysExit(p, 1)
                   /\ Branch(p, "NotFound")
                   /\ UNCHANGED mount_point
              ELSE IF ~has_iso_suffix(path)
              THEN /\ SysExit(p, 1)
                   /\ Branch(p, "NotAnIso")
                   /\ UNCHANGED mount_point
              ELSE /\ Goto(p, "m_is_mounted")
                   /\ mount_point' = [mount_point EXCEPT ![p] = get_mount_point(path)]
                   /\ UNCHANGED branch
    /\ UNCHANGED <<FileSystem, argv, isoKind, calls>>

\* A mount that goes on to the directories without looking at the mounts.
MountCheckSkipped(p) ==
    /\ pc[p] = "m_is_mounted"
    /\ Goto(p, "m_makedirs_base")
    /\ UNCHANGED <<FileSystem, Locals, branch, calls>>

\* Line 49: if is_mounted(mount_point)
MountCheckMounted(p) ==
    /\ pc[p] = "m_is_mounted"
    /\ IF is_mounted(mount_point[p])
       THEN Goto(p, "m_open_already") /\ Branch(p, "AlreadyMounted")
       ELSE Goto(p, "m_makedirs_base") /\ UNCHANGED branch
    /\ UNCHANGED <<FileSystem, Locals, calls>>

\* subprocess.Popen(['xdg-open', mount_point]) under "except FileNotFoundError",
\* then the end of the invocation with status 0.
OpenAndExit(p) ==
    \E o \in PopenOutcomes :
        /\ Called(p, "opened", o)
        /\ IF o = "os_error" THEN Raise(p, "OSError") ELSE SysExit(p, 0)

\* Lines 50-56: already mounted.
OpenAlready(p) ==
    /\ pc[p] = "m_open_already"
    /\ OpenAndExit(p)
    /\ UNCHANGED <<FileSystem, Locals, branch>>

\* Lines 59-63: os.makedirs(BASE_MOUNT_DIR, exist_ok=True)
MakeBaseDir(p) ==
    /\ pc[p] = "m_makedirs_base"
    /\ \E created \in BOOLEAN :
        IF created
        THEN /\ baseExists' = TRUE
             /\ Called(p, "made", IF baseExists THEN {} ELSE {BASE_MOUNT_DIR})
             /\ Goto(p, "m_makedirs_mp")
             /\ UNCHANGED branch
        ELSE /\ SysExit(p, 1)
             /\ Branch(p, "DirectoryCreateFailed")
             /\ UNCHANGED <<baseExists, calls>>
    /\ UNCHANGED <<dirs, Locals>>

\* Lines 66-70: os.makedirs(mount_point, exist_ok=True)
MakeMountDir(p) ==
    /\ pc[p] = "m_makedirs_mp"
    /\ \E created \in BOOLEAN :
        IF created
        THEN /\ dirs' = makedirs(mount_point[p])
             /\ baseExists' = TRUE
             /\ Called(p, "made",
                       calls[p].made \cup (IF baseExists THEN {} ELSE {BASE_MOUNT_DIR})
                                     \cup (IF dirs[mount_point[p]].exists THEN {}
                                           ELSE {mount_point[p]}))
             /\ Goto(p, "m_mount")
             /\ UNCHANGED branch
        ELSE /\ SysExit(p, 1)
             /\ Branch(p, "DirectoryCreateFailed")
             /\ UNCHANGED <<FileSystem, calls>>
    /\ UNCHANGED Locals

\* The OS loopback mount of an image on a directory can succeed only for a
\* regular file on an existing directory.
CanMount(kind, d) ==
    kind = "file" /\ dirs[d].exists /\ dirs[d].mounts < MaxMounts

\* Lines 76-77: the mount command returned 0.
MountSucceeded(p) ==
    /\ dirs' = [dirs EXCEPT ![mount_point[p]].mounts = @ + 1]
    /\ Called(p, "mount", <<iso_path[p], mount_point[p]>>)
    /\ Goto(p, "m_open_mounted")
    /\ Branch(p, "Mounted")

\* A failure handler that exits without the cleanup.
MountFailedNoCleanup(p) ==
    /\ Called(p, "mount", <<iso_path[p], mount_point[p]>>)
    /\ SysExit(p, 1)
    /\ Branch(p, "MountFailed")
    /\ UNCHANGED dirs

\* Lines 88-89: the mount command returned non-zero (CalledProcessError).
MountFailed(p) ==
    /\ Called(p, "mount", <<iso_path[p], mount_point[p]>>)
    /\ Goto(p, "m_cleanup_exists")
    /\ Branch(p, "MountFailed")
    /\ UNCHANGED dirs

\* A handler for the missing mount command that runs the cleanup as well.
MountMissingThenCleanup(p) ==
    /\ Goto(p, "m_cleanup_exists")
    /\ Branch(p, "MountToolMissing")
    /\ UNCHANGED <<dirs, calls>>

\* Lines 98-100: no mount command (FileNotFoundError).
MountMissing(p) ==
    /\ SysExit(p, 1)
    /\ Branch(p, "MountToolMissing")
    /\ UNCHANGED <<dirs, calls>>

\* Lines 72-76: subprocess.run(['mount', '-o', 'loop', iso_path, mount_point])
RunMount(p) ==
    /\ pc[p] = "m_mount"
    /\ \E o \in RunOutcomes :
        CASE o = "ok" -> CanMount(isoKind[p], mount_point[p]) /\ MountSucceeded(p)
          [] o = "nonzero" -> MountFailed(p)
          [] o = "not_found" -> MountMissing(p)
    /\ UNCHANGED <<baseExists, Locals>>

\* Lines 77-86: the mount succeeded.
OpenMounted(p) ==
    /\ pc[p] = "m_open_mounted"
    /\ OpenAndExit(p)
    /\ UNCHANGED <<FileSystem, Locals, branch>>

\* The first half of "os.path.exists(mount_point) and not os.listdir(mount_point)":
\* with no directory the cleanup is skipped and the invocation ends with `code`.
CleanupExists(p, from, list, code) ==
    /\ pc[p] = from
    /\ IF PathExists(mount_point[p]) THEN Goto(p, list) ELSE SysExit(p, code)
    /\ UNCHANGED <<FileSystem, Locals, branch, calls>>

\* The second half: os.listdir raises FileNotFoundError when the directory
\* is gone by now (`gone` is what the invocation does with it), and the
\* directory is removed only when the listing is empty.
CleanupList(p, from, remove, code, gone) ==
    /\ pc[p] = from
    /\ IF ~PathExists(mount_point[p])
       THEN /\ gone
            /\ Called(p, "listing", "raised")
       ELSE \E seen \in Listings(mount_point[p]) :
                /\ Called(p, "listing", seen)
                /\ IF seen = "empty" THEN Goto(p, remove) ELSE SysExit(p, code)
    /\ UNCHANGED <<FileSystem, Locals, branch>>

\* os.rmdir(mount_point) under "except OSError", then the end of the
\* invocation with `code`.
CleanupRmdir(p, from, code) ==
    /\ pc[p] = from
    /\ \E granted \in BOOLEAN :
        /\ dirs' = rmdir(mount_point[p], granted)
        /\ Called(p, "rmdir", IF dirs'[mount_point[p]].exists THEN "failed"
                               ELSE "removed")
    /\ SysExit(p, code)
    /\ UNCHANGED <<baseExists, Locals, branch>>

\* Lines 91-97: the cleanup after a failed mount, which exits 1.
MountFailedExists(p) == CleanupExists(p, "m_cleanup_exists", "m_cleanup_list", 1)
MountFailedList(p) ==
    CleanupList(p, "m_cleanup_list", "m_cleanup_rmdir", 1, Raise(p, "FileNotFoundError"))
MountFailedRmdir(p) == CleanupRmdir(p, "m_cleanup_rmdir", 1)

---------------------------------------------------------------------------
(* unmount_iso *)

\* A test that looks for the image instead of its mount point.
ImageMissing(p, d) == isoKind[p] = "absent"

\* Line 106: if not os.path.exists(mount_point)
MountPointMissing(p, d) == ~PathExists(d)

\* Lines 103-108: the mount point, and nothing to do when it does not exist.
UnmountResolve(p) ==
    /\ pc[p] = "unmount_iso"
    /\ LET path == abspath(argv[p][3])
           d == get_mount_point(path)
       IN  /\ iso_path' = [iso_path EXCEPT ![p] = path]
           /\ mount_point' = [mount_point EXCEPT ![p] = d]
           /\ IF MountPointMissing(p, d)
              THEN SysExit(p, 0) /\ Branch(p, "NoMountPoint")
              ELSE Goto(p, "u_is_mounted") /\ UNCHANGED branch
    /\ UNCHANGED <<FileSystem, argv, isoKind, calls>>

\* Line 110: if not is_mounted(mount_point)
UnmountCheckMounted(p) ==
    /\ pc[p] = "u_is_mounted"
    /\ IF ~is_mounted(mount_point[p])
       THEN Goto(p, "u_stale_exists") /\ Branch(p, "NotMounted")
       ELSE Goto(p, "u_umount") /\ UNCHANGED branch
    /\ UNCHANGED <<FileSystem, Locals, calls>>

\* Lines 113-119: the cleanup of a directory that is not mounted, which exits 0.
NotMountedExists(p) == CleanupExists(p, "u_stale_exists", "u_stale_list", 0)
NotMountedList(p) ==
    CleanupList(p, "u_stale_list", "u_stale_rmdir", 0, Raise(p, "FileNotFoundError"))

\* A removal whose failure ends the invocation with status 1.
NotMountedRmdirFatal(p) ==
    /\ pc[p] = "u_stale_rmdir"
    /\ \E granted \in BOOLEAN :
        /\ dirs' = rmdir(mount_point[p], granted)
        /\ Called(p, "rmdir", IF dirs'[mount_point[p]].exists THEN "failed"
                               ELSE "removed")
    /\ IF dirs'[mount_point[p]].exists THEN SysExit(p, 1) ELSE SysExit(p, 0)
    /\ UNCHANGED <<baseExists, Locals, branch>>

NotMountedRmdir(p) == CleanupRmdir(p, "u_stale_rmdir", 0)

\* Lines 123-124: the umount command returned 0.
UmountSucceeded(p) ==
    /\ dirs' = [dirs EXCEPT ![mount_point[p]].mounts = @ - 1]
    /\ Called(p, "umount", <<mount_point[p]>>)
    /\ Goto(p, "u_done_exists")
    /\ Branch(p, "Unmounted")

\* A failure handler that falls through to the cleanup.
UmountFailedThenCleanup(p) ==
    /\ Called(p, "umount", <<mount_point[p]>>)
    /\ Goto(p, "u_done_exists")
    /\ Branch(p, "UnmountFailed")
    /\ UNCHANGED dirs

\* Lines 137-140: the umount command returned non-zero (CalledProcessError).
UmountFailed(p) ==
    /\ Called(p, "umount", <<mount_point[p]>>)
    /\ SysExit(p, 1)
    /\ Branch(p, "UnmountFailed")
    /\ UNCHANGED dirs

\* Lines 141-143: no umount command (FileNotFoundError).
UmountMissing(p) ==
    /\ SysExit(p, 1)
    /\ Branch(p, "UnmountToolMissing")
    /\ UNCHANGED <<dirs, calls>>

\* Lines 121-123: subprocess.run(['umount', mount_point])
RunUmount(p) ==
    /\ pc[p] = "u_umount"
    /\ \E o \in RunOutcomes :
        CASE o = "ok" -> dirs[mount_point[p]].mounts > 0 /\ UmountSucceeded(p)
          [] o = "nonzero" -> UmountFailed(p)
          [] o = "not_found" -> UmountMissing(p)
    /\ UNCHANGED <<baseExists, Locals>>

\* A check that goes on to the removal whatever the listing shows.
UnmountedListAlwaysRemoves(p) ==
    /\ pc[p] = "u_done_list"
    /\ PathExists(mount_point[p])
    /\ \E seen \in Listings(mount_point[p]) : Called(p, "listing", seen)
    /\ Goto(p, "u_done_rmdir")
    /\ UNCHANGED <<FileSystem, Locals, branch>>

\* An unmount that leaves the directory behind.
UnmountedKeepsDirectory(p) ==
    /\ pc[p] = "u_done_rmdir"
    /\ SysExit(p, 0)
    /\ UNCHANGED <<FileSystem, Locals, branch, calls>>

\* Lines 127-135: the cleanup after the unmount, inside the try whose
\* "except FileNotFoundError" (lines 141-143) exits 1; the function returns
\* otherwise and the invocation ends with status 0.
UnmountedExists(p) == CleanupExists(p, "u_done_exists", "u_done_list", 0)
UnmountedList(p) ==
    CleanupList(p, "u_done_list", "u_done_rmdir", 0,
                SysExit(p, 1) /\ UNCHANGED uncaught)
UnmountedRmdir(p) == CleanupRmdir(p, "u_done_rmdir", 0)

---------------------------------------------------------------------------
(* Other users of the file system *)

\* Someone puts an entry into a directory that is not mounted over.
WriteInto(d) ==
    /\ dirs[d].exists /\ dirs[d].mounts = 0 /\ ~dirs[d].nonempty
    /\ dirs' = [dirs EXCEPT ![d].nonempty = TRUE]
    /\ UNCHANGED <<baseExists, pc, Locals, exitCode, branch, uncaught, calls,
                   derivation>>

\* Someone removes the entries of a directory that is not mounted over.
EmptyOut(d) ==
    /\ dirs[d].exists /\ dirs[d].mounts = 0 /\ dirs[d].nonempty
    /\ dirs' = [dirs EXCEPT ![d].nonempty = FALSE]
    /\ UNCHANGED <<baseExists, pc, Locals, exitCode, branch, uncaught, calls,
                   derivation>>

---------------------------------------------------------------------------
(* Specifications *)

Step(p) ==
    \/ Main(p)
    \/ MountPrecheck(p)
    \/ MountCheckMounted(p)
    \/ OpenAlready(p)
    \/ MakeBaseDir(p)
    \/ MakeMountDir(p)
    \/ RunMount(p)
    \/ OpenMounted(p)
    \/ MountFailedExists(p)
    \/ MountFailedList(p)
    \/ MountFailedRmdir(p)
    \/ UnmountResolve(p)
    \/ UnmountCheckMounted(p)
    \/ NotMountedExists(p)
    \/ NotMountedList(p)
    \/ NotMountedRmdir(p)
    \/ RunUmount(p)
    \/ UnmountedExists(p)
    \/ UnmountedList(p)
    \/ UnmountedRmdir(p)

Others ==
    \E d \in MountPoints : WriteInto(d) \/ EmptyOut(d)

\* One invocation at a time: the single-threaded tool runs to its exit
\* while nothing else touches the file system.
Next ==
    \/ Step(Alone)
    \/ pc[Alone] \in {"idle", "done"} /\ Others

Spec == Init /\ [][Next]_vars

\* Two invocations for the same image interleave step by step with each
\* other and with the other users of the file system.
RaceNext ==
    \/ \E p \in Racers : Step(p)
    \/ Others

RaceSpec == Init /\ [][RaceNext]_vars

\* The derivation of the directory name, followed on its own: the string
\* is any string of up to MaxLen characters of Alphabet; its hash, which
\* the model does not compute, is any of the hashes of the image paths.
Alphabet == {"a", "7", "_", ".", "-", " ", "/", "é"}

Strings(n) == UNION {[1..k -> Alphabet] : k \in 0..n}

Hashes == {path_hash(Chars(t)) : t \in AbsPaths}

DerivationInit ==
    /\ dirs = [d \in MountPoints |-> NoDir]
    /\ baseExists = FALSE
    /\ pc = [p \in Procs |-> "idle"]
    /\ argv = [p \in Procs |-> <<>>]
    /\ isoKind = [p \in Procs |-> "absent"]
    /\ iso_path = [p \in Procs |-> NoPath]
    /\ mount_point = [p \in Procs |-> NoPath]
    /\ exitCode = [p \in Procs |-> NoExit]
    /\ branch = [p \in Procs |-> "none"]
    /\ uncaught = [p \in Procs |-> "none"]
    /\ calls = [p \in Procs |-> NoCalls]
    /\ \E s \in Strings(MaxLen) :
        derivation = [stage |-> "given", given |-> s, hash |-> <<>>,
                      path |-> <<>>, result |-> <<>>]

Invocations == <<dirs, baseExists, pc, argv, isoKind, iso_path, mount_point,
                 exitCode, branch, uncaught, calls>>

\* Lines 12-16: sanitize_filename(filename) of the given string.
Sanitize ==
    /\ derivation.stage = "given"
    /\ derivation' = [derivation EXCEPT
                        !.stage = "sanitized",
                        !.result = sanitize_filename(derivation.given)]
    /\ UNCHANGED Invocations

\* Lines 38/103 and 18-29: get_mount_point(os.path.abspath(iso_path)) of
\* the given string as image path.
Resolve ==
    /\ derivation.stage = "given"
    /\ \E h \in Hashes :
        LET p == AbsPath(derivation.given)
        IN  derivation' = [derivation EXCEPT
                             !.stage = "resolved",
                             !.path = p,
                             !.hash = h,
                             !.result = MountPointOf(dir_name(p, h))]
    /\ UNCHANGED Invocations

DerivationNext == Sanitize \/ Resolve

DerivationSpec == DerivationInit /\ [][DerivationNext]_vars

\* The tool as a whole: a derivation followed on its own, or the invocation
\* that runs alone.
ToolInit == Init \/ DerivationInit

ToolNext ==
    \/ derivation.stage = "off" /\ Next
    \/ DerivationNext

ToolSpec == ToolInit /\ [][ToolNext]_vars

TypeOK ==
    /\ \A d \in MountPoints :
        /\ dirs[d].mounts \in 0..MaxMounts
        /\ ~dirs[d].exists => (~dirs[d].nonempty /\ dirs[d].mounts = 0)
    /\ \A p \in Procs : exitCode[p] \in {NoExit, 0, 1}

---------------------------------------------------------------------------
(* The claims *)

Done(p) == pc[p] = "done"

\* The invocation leaves with this step.
Exits(p) == pc[p] /= "done" /\ pc'[p] = "done"

\* The invocation is `tool mount <path>` or `tool unmount <path>`.
Runs(p, action) == Len(argv[p]) >= 3 /\ argv[p][2] = action

\* The last component of the image path ends in ".iso", whatever the case.
NameIsIso(p) ==
    LET name == BaseName(AbsPath(Chars(argv[p][3])))
        n == Len(name)
    IN  /\ n >= 4
        /\ name[n - 3] = "."
        /\ name[n - 2] \in {"i", "I"}
        /\ name[n - 1] \in {"s", "S"}
        /\ name[n] \in {"o", "O"}

\* The invocation issued nothing that changes the file system or the mounts.
Harmless(p) ==
    /\ calls[p].made = {}
    /\ calls[p].mount = <<>>
    /\ calls[p].umount = <<>>
    /\ calls[p].rmdir = "none"

\* C1: a mount of an image whose mount point is already an active mount
\* point exits 0, invokes no OS mount and creates or removes no directory.
C1_IdempotentMount ==
    \A p \in Procs :
        (Done(p) /\ branch[p] = "AlreadyMounted") =>
            (exitCode[p] = 0 /\ Harmless(p))

\* C2: in every interleaving, a directory that disappears was, at that
\* moment, empty and not a mount point.
C2_RemovesOnlyEmptyUnmounted ==
    [][\A d \in MountPoints :
          (dirs[d].exists /\ ~dirs'[d].exists) =>
              (dirs[d].mounts = 0 /\ ~dirs[d].nonempty)]_vars

\* A directory was removed while the other invocation was under way.
C2_Witness ==
    \E p \in Racers, q \in Racers :
        /\ calls[p].rmdir = "removed"
        /\ pc[q] \notin {"idle", "done"}

UbuntuDottedDir == "/home/user/.iso_mounts/Ubuntu-22.04_472df921"
UbuntuUnderscoredDir == "/home/user/.iso_mounts/Ubuntu-22_04_472df921"

\* The mount of /data/Ubuntu-22.04.iso went through: the image exists, was
\* not mounted, and the OS mount succeeded.
MountedUbuntu(p) ==
    Done(p) /\ iso_path[p] = P_ubuntu /\ branch[p] = "Mounted"

CleanedUp(p, d) ==
    IF dirs[d].exists /\ ~dirs[d].nonempty /\ dirs[d].mounts = 0
    THEN /\ calls'[p].rmdir \in {"removed", "failed"}
         /\ calls'[p].rmdir = "removed" <=> ~dirs'[d].exists
         /\ calls'[p].rmdir = "failed" => dirs' = dirs
    ELSE /\ calls'[p].rmdir = "none"
         /\ dirs' = dirs

\* C4: when the OS mount returns non-zero the invocation exits 1; a mount
\* point that is then an empty directory is removed (os.rmdir is issued on
\* it, and it is gone unless the OS refuses the removal), and a non-empty
\* one is left as it is, with no removal attempted.
C4_FailedMountCleanup ==
    [][\A p \in Procs :
          (Exits(p) /\ branch'[p] = "MountFailed") =>
              LET d == mount_point[p]
              IN  /\ exitCode'[p] = 1
                  /\ calls'[p].mount = <<iso_path[p], d>>
                  /\ CleanedUp(p, d)]_vars

\* The directory the failed invocation had just created is gone.
C4_Witness ==
    \E p \in Procs :
        /\ Done(p) /\ branch[p] = "MountFailed" /\ exitCode[p] = 1
        /\ mount_point[p] \in calls[p].made
        /\ calls[p].rmdir = "removed"
        /\ ~dirs[mount_point[p]].exists

\* C5, as stated: a mount of a path whose name does not end in ".iso" exits
\* 1 as NotAnIso whether or not the file exists, creating no directory and
\* invoking no OS mount.
C5_AsStated ==
    \A p \in Procs :
        (Done(p) /\ Runs(p, "mount") /\ ~NameIsIso(p)) =>
            (exitCode[p] = 1 /\ branch[p] = "NotAnIso" /\ Harmless(p))

\* C5, amended: a mount of a path whose name does not end in ".iso",
\* whatever the case, exits 1, creating no directory and invoking no OS
\* mount: as NotFound when nothing exists at the path, as NotAnIso when
\* something does; and no path whose name ends in ".iso" in any case is
\* rejected as NotAnIso.
C5_NonIsoRejected ==
    \A p \in Procs :
        (Done(p) /\ Runs(p, "mount")) =>
            /\ ~NameIsIso(p) =>
                /\ exitCode[p] = 1
                /\ branch[p] = IF isoKind[p] = "absent" THEN "NotFound" ELSE "NotAnIso"
                /\ Harmless(p)
            /\ NameIsIso(p) => branch[p] /= "NotAnIso"

\* /tmp/file.txt exists and its mount was rejected as NotAnIso.
C5_Witness ==
    \E p \in Procs :
        /\ Done(p) /\ Runs(p, "mount")
        /\ iso_path[p] = P_txt /\ isoKind[p] = "file"
        /\ branch[p] = "NotAnIso" /\ exitCode[p] = 1

\* C6: a mount of a path that is not an existing regular file exits 1 as
\* NotFound, and only a regular file has its extension checked (NotAnIso,
\* exit 1); neither failure creates a directory or invokes the OS mount.
C6_PreconditionsInOrder ==
    \A p \in Procs :
        (Done(p) /\ Runs(p, "mount")) =>
            /\ isoKind[p] /= "file" =>
                (exitCode[p] = 1 /\ branch[p] = "NotFound" /\ Harmless(p))
            /\ (isoKind[p] = "file" /\ ~NameIsIso(p)) =>
                (exitCode[p] = 1 /\ branch[p] = "NotAnIso" /\ Harmless(p))

\* C7: an unmount whose mount point does not exist exits 0 at once,
\* without invoking the OS unmount and without changing the file system,
\* whether or not the image exists and whatever its extension.
C7_UnmountOfNonexistent ==
    [][\A p \in Procs :
          (/\ pc[p] = "unmount_iso"
           /\ pc'[p] /= pc[p]
           /\ ~dirs[get_mount_point(abspath(argv[p][3]))].exists) =>
              /\ pc'[p] = "done"
              /\ exitCode'[p] = 0
              /\ calls'[p] = NoCalls
              /\ dirs' = dirs
              /\ baseExists' = baseExists]_vars

\* The unmount of /tmp/file.txt, which does not exist and was never
\* mounted, left with status 0.
C7_Witness ==
    \E p \in Procs :
        /\ Done(p) /\ Runs(p, "unmount")
        /\ iso_path[p] = P_txt /\ isoKind[p] = "absent"
        /\ branch[p] = "NoMountPoint" /\ exitCode[p] = 0

\* C8: an unmount whose mount point exists and is not an active mount point
\* invokes no OS unmount, removes the directory when it is empty, leaves it
\* when it is not, and exits 0 in both cases, also when the removal fails.
C8_NotMountedCleanup ==
    [][\A p \in Procs :
          /\ (/\ pc[p] = "u_is_mounted" /\ pc'[p] /= pc[p]
              /\ dirs[mount_point[p]].exists /\ dirs[mount_point[p]].mounts = 0) =>
                 (branch'[p] = "NotMounted" /\ pc'[p] /= "done")
          /\ (branch[p] = "NotMounted" /\ ~Done(p) /\ pc'[p] /= pc[p]) =>
                 /\ calls'[p].umount = <<>>
                 /\ pc'[p] \in {"u_stale_exists", "u_stale_list", "u_stale_rmdir", "done"}
                 /\ pc'[p] = "done" =>
                        (exitCode'[p] = 0 /\ CleanedUp(p, mount_point[p]))]_vars

\* The removal of the empty, unmounted directory failed, and the unmount
\* left with status 0.
C8_Witness ==
    \E p \in Procs :
        /\ Done(p) /\ branch[p] = "NotMounted" /\ exitCode[p] = 0
        /\ calls[p].listing = "empty" /\ calls[p].rmdir = "failed"
        /\ dirs[mount_point[p]].exists

\* C9: an unmount of an active mount point whose OS unmount succeeds exits
\* 0; the mount point is removed when it is empty after the unmount and is
\* left in place, with its contents, when it is not.
C9_UnmountedCleanup ==
    [][\A p \in Procs :
          /\ (branch[p] /= "Unmounted" /\ branch'[p] = "Unmounted") =>
                 /\ pc[p] = "u_umount" /\ pc'[p] /= "done"
                 /\ dirs[mount_point[p]].mounts > 0
                 /\ dirs'[mount_point[p]].mounts = dirs[mount_point[p]].mounts - 1
          /\ (Exits(p) /\ branch[p] = "Unmounted") =>
                 (exitCode'[p] = 0 /\ CleanedUp(p, mount_point[p]))]_vars

\* The directory held an entry under the mount: the unmount left with
\* status 0 and the directory is still there, not empty.
C9_Witness ==
    \E p \in Procs :
        /\ Done(p) /\ branch[p] = "Unmounted" /\ exitCode[p] = 0
        /\ calls[p].listing = "nonempty" /\ calls[p].rmdir = "none"
        /\ dirs[mount_point[p]].exists /\ dirs[mount_point[p]].nonempty

\* C10: when the OS unmount returns non-zero the invocation exits 1 at
\* once and leaves the mount point untouched: it exists, it is mounted and
\* holds what it held, and no emptiness check or removal is attempted.
C10_FailedUnmountTouchesNothing ==
    [][\A p \in Procs :
          (branch[p] /= "UnmountFailed" /\ branch'[p] = "UnmountFailed") =>
              /\ pc[p] = "u_umount" /\ pc'[p] = "done"
              /\ exitCode'[p] = 1
              /\ calls'[p].umount = <<mount_point[p]>>
              /\ calls'[p].listing = "none" /\ calls'[p].rmdir = "none"
              /\ dirs[mount_point[p]].exists /\ dirs[mount_point[p]].mounts > 0
              /\ dirs' = dirs /\ baseExists' = baseExists]_vars

\* The unmount failed: exit 1, and the image is still mounted.
C10_Witness ==
    \E p \in Procs :
        /\ Done(p) /\ branch[p] = "UnmountFailed" /\ exitCode[p] = 1
        /\ dirs[mount_point[p]].mounts > 0


\* C11: the cleanup never changes the exit code the primary operation has
\* determined: an invocation whose OS unmount succeeded ends with exit
\* code 0, and one whose OS mount failed ends with exit code 1, also when
\* another invocation removes or changes the mount point directory
\* between the steps of the cleanup.
C11_CleanupKeepsExitCode ==
    \A p \in Procs :
        Done(p) =>
            /\ branch[p] = "Unmounted" => exitCode[p] = 0
            /\ branch[p] = "MountFailed" => exitCode[p] = 1

\* C12: opening the mount point is never fatal: whether the opener starts,
\* is missing or fails in another way, the invocation that has mounted the
\* image, or found it mounted, exits with code 0 and the mount stays.
C12_OpenNeverFatal ==
    \A p \in Procs :
        (Done(p) /\ calls[p].opened # "none") =>
            /\ branch[p] \in {"Mounted", "AlreadyMounted"}
            /\ exitCode[p] = 0
            /\ is_mounted(mount_point[p])

\* C13: a command line that is not exactly one action followed by one
\* image path, or whose action is neither mount nor unmount, exits with
\* code 1 without running any of the mount or unmount logic.
C13_DispatchRejectsOtherCommandLines ==
    \A p \in Procs :
        (pc[p] # "idle" /\ (Len(argv[p]) # 3 \/ argv[p][2] \notin {"mount", "unmount"})) =>
            /\ Done(p)
            /\ exitCode[p] = 1
            /\ branch[p] \in {"UsageError", "UnknownAction"}
            /\ calls[p] = NoCalls


\* C16: when the mount command cannot be found, the mount invocation exits
\* with code 1 (MountToolMissing) at once: it attempts no cleanup, the
\* mount point directory and the base directory it made sure of stay as
\* they are, and nothing is mounted.
C16_MountToolMissing ==
    /\ [](\A p \in Procs :
            (Done(p) /\ branch[p] = "MountToolMissing") =>
                /\ exitCode[p] = 1
                /\ calls[p].mount = <<>>
                /\ calls[p].listing = "none"
                /\ calls[p].rmdir = "none")
    /\ [][\A p \in Procs :
            (pc[p] = "m_mount" /\ branch'[p] = "MountToolMissing") =>
                /\ Exits(p)
                /\ baseExists /\ PathExists(mount_point[p])
                /\ ~is_mounted(mount_point[p])
                /\ dirs' = dirs
                /\ baseExists' = baseExists]_vars

C16_Witness ==
    /\ Done(Alone)
    /\ branch[Alone] = "MountToolMissing"
    /\ mount_point[Alone] \in calls[Alone].made
    /\ dirs[mount_point[Alone]] = EmptyDir

\* C17: mount and unmount resolve the same mount point for the same path,
\* so a round trip undoes itself: the image mounted on a directory that the
\* mount invocation created is mounted on an empty directory; the unmount
\* of an image mounted on an empty directory, with the OS unmounting and
\* not refusing the removal, ends with exit code 0, the mount point not
\* mounted and its directory removed; and an unmount that finds no
\* directory does nothing and exits 0.
C17_RoundTrip ==
    /\ [](\A p \in Procs :
            /\ mount_point[p] # NoPath =>
                 mount_point[p] = get_mount_point(abspath(argv[p][3]))
            /\ (Done(p) /\ branch[p] = "Mounted" /\ mount_point[p] \in calls[p].made) =>
                 /\ is_mounted(mount_point[p])
                 /\ ~dirs[mount_point[p]].nonempty)
    /\ [][\A p \in Procs :
            /\ (/\ Exits(p)
                /\ branch'[p] = "Unmounted"
                /\ ~dirs[mount_point[p]].nonempty
                /\ calls'[p].rmdir # "failed") =>
                    /\ exitCode'[p] = 0
                    /\ calls'[p].rmdir = "removed"
                    /\ ~PathExists(mount_point[p])'
                    /\ ~is_mounted(mount_point[p])'
            /\ (/\ pc[p] = "unmount_iso"
                /\ pc'[p] # "unmount_iso"
                /\ ~PathExists(get_mount_point(abspath(argv[p][3])))) =>
                    /\ Exits(p)
                    /\ exitCode'[p] = 0
                    /\ branch'[p] = "NoMountPoint"
                    /\ calls'[p] = NoCalls
                    /\ UNCHANGED FileSystem]_vars

C17_Witness ==
    /\ Done(Alone)
    /\ branch[Alone] = "Unmounted"
    /\ exitCode[Alone] = 0
    /\ calls[Alone].rmdir = "removed"
    /\ baseExists
    /\ dirs[mount_point[Alone]] = NoDir


\* The invocation runs the mount command with this step.
MountInvoked(p) == calls[p].mount = <<>> /\ calls'[p].mount # <<>>

\* C18 as stated: in any interleaving of concurrent mount invocations for
\* the same image, the OS mount is never invoked on a mount point that is
\* an active mount point at that moment.
C18_AsStated ==
    [][\A p \in Procs :
        MountInvoked(p) => ~is_mounted(mount_point[p])]_vars

\* C18: an invocation that sees the mount on its check goes to the
\* already-mounted exit and invokes no OS mount and creates no directory;
\* the OS mount is invoked only by an invocation whose own check found the
\* mount point not mounted, whatever has been mounted on it since.
C18_CheckThenMount ==
    /\ [](\A p \in Procs :
            branch[p] = "AlreadyMounted" =>
                /\ calls[p].mount = <<>>
                /\ calls[p].made = {}
                /\ pc[p] \in {"m_open_already", "done"})
    /\ [][\A p \in Procs :
            /\ (pc[p] = "m_is_mounted" /\ pc'[p] # pc[p]) =>
                 IF is_mounted(mount_point[p])
                 THEN pc'[p] = "m_open_already" /\ branch'[p] = "AlreadyMounted"
                 ELSE pc'[p] = "m_makedirs_base" /\ branch'[p] = "none"
            /\ MountInvoked(p) =>
                 /\ pc[p] = "m_mount"
                 /\ branch[p] = "none"
                 /\ calls'[p].mount = <<iso_path[p], mount_point[p]>>]_vars

\* Two invocations passed the check; one has mounted, the other is about
\* to invoke the OS mount on the active mount point.
C18_Witness ==
    \E p \in Racers : \E q \in Racers \ {p} :
        /\ pc[p] = "m_mount"
        /\ branch[q] = "Mounted"
        /\ mount_point[q] = mount_point[p]
        /\ is_mounted(mount_point[p])

\* C19 as stated: whenever the OS mount is invoked, the mount point
\* directory passed as target exists at that moment, in every interleaving
\* with a concurrent unmount or failed mount for the same image.
C19_AsStated ==
    [][\A p \in Procs :
        MountInvoked(p) => PathExists(mount_point[p])]_vars

\* C19: the mount point directory exists when the invocation's directory
\* creation has succeeded; a concurrent cleanup can remove it before the
\* OS mount is invoked, and then the mount fails, nothing is mounted and
\* the invocation takes the failed-mount exit with code 1.
C19_DirectoryMadeBeforeMount ==
    /\ [](\A p \in Procs :
            (Done(p) /\ branch[p] = "MountFailed") => exitCode[p] = 1)
    /\ [][\A p \in Procs :
            /\ (pc[p] = "m_makedirs_mp" /\ pc'[p] = "m_mount") =>
                 /\ PathExists(mount_point[p])'
                 /\ baseExists'
            /\ (MountInvoked(p) /\ ~PathExists(mount_point[p])) =>
                 /\ branch'[p] = "MountFailed"
                 /\ pc'[p] = "m_cleanup_exists"
                 /\ dirs' = dirs]_vars

\* The directory the invocation created is gone when it is about to
\* invoke the OS mount.
C19_Witness ==
    \E p \in Racers :
        /\ pc[p] = "m_mount"
        /\ mount_point[p] \in calls[p].made
        /\ ~PathExists(mount_point[p])


\* The characters of [A-Za-z0-9_.-].
AsciiSafe == LowerCase \cup UpperCase \cup Digits \cup {"_", ".", "-"}

\* No two adjacent underscores, and none at either end.
UnderscoresTidy(s) ==
    /\ \A i \in 1..(Len(s) - 1) : ~(s[i] = "_" /\ s[i + 1] = "_")
    /\ Len(s) > 0 => (s[1] # "_" /\ s[Len(s)] # "_")

OtherHashes == Hashes \ {derivation.hash}

\* C15: the resolved directory name ends with the 8 hex characters of the
\* path hash, unchanged and set off from the stem, so the same path with
\* a different hash resolves to a different mount point.
C15_HashSegmentKept ==
    derivation.stage = "resolved" =>
        LET r == derivation.result
            h == derivation.hash
            stem == sanitize_filename(SplitExtRoot(BaseName(derivation.path)) \o <<"_">>)
        IN  /\ Len(h) = 8
            /\ EndsWith(r, h)
            /\ r[Len(r) - 8] \in {"_", "/"}
            /\ r[Len(r) - 8] = "/" <=> stem = <<>>
            /\ \A h2 \in OtherHashes :
                MountPointOf(dir_name(derivation.path, h2)) # r

C15_Witness ==
    /\ derivation.stage = "resolved"
    /\ derivation.given = <<"a", " ", ".", "7">>
    /\ derivation.result = MountPointOf(<<"a", "_">> \o derivation.hash)
    /\ OtherHashes # {}

\* The path is BASE_MOUNT_DIR, a separator and a name that is not empty,
\* holds no separator and is neither "." nor "..".
ChildName(r) == SubSeq(r, Len(Chars(BASE_MOUNT_DIR)) + 2, Len(r))

DirectChild(r) ==
    /\ Len(r) > Len(Chars(BASE_MOUNT_DIR)) + 1
    /\ SubSeq(r, 1, Len(Chars(BASE_MOUNT_DIR)) + 1) = Chars(BASE_MOUNT_DIR) \o <<"/">>
    /\ Find(ChildName(r), "/") = 0
    /\ ChildName(r) \notin {<<".">>, <<".", ".">>}

\* C20: for every image path the resolved mount point is a direct child
\* of BASE_MOUNT_DIR with a name that is not empty, holds no path separator
\* and is neither "." nor ".."; every directory an invocation creates,
\* mounts on, unmounts or removes, BASE_MOUNT_DIR on its creation apart, is
\* such a child, and BASE_MOUNT_DIR is never removed.
C20_DirectChildOfBaseDir ==
    /\ [](derivation.stage = "resolved" => DirectChild(derivation.result))
    /\ [](\A p \in Procs :
            /\ mount_point[p] # NoPath => DirectChild(Chars(mount_point[p]))
            /\ \A d \in calls[p].made \ {BASE_MOUNT_DIR} : d = mount_point[p]
            /\ calls[p].mount # <<>> => calls[p].mount[2] = mount_point[p]
            /\ calls[p].umount # <<>> => calls[p].umount[1] = mount_point[p])
    /\ [][/\ baseExists => baseExists'
          /\ \A d \in MountPoints :
                dirs'[d] # dirs[d] =>
                    \/ \E p \in Procs : d = mount_point[p] /\ calls'[p] # calls[p]
                    \/ dirs'[d].nonempty # dirs[d].nonempty]_vars

\* The image path is the root: the stem is empty and the name is the hash.
C20_Witness ==
    /\ derivation.stage = "resolved"
    /\ derivation.given = <<".", ".", "/", ".">>
    /\ derivation.path = <<"/">>
    /\ ChildName(derivation.result) = derivation.hash

=============================================================================
